---- MODULE Spec2Model ----
(***************************************************************************)
(* Card number entry widget (src/components/CardInput.tsx and              *)
(* src/utils/cardFormatter.ts).                                            *)
(*                                                                         *)
(* Strings are sequences of one-character strings.  One state of the       *)
(* model is one committed render of the component: the values of its       *)
(* useState slots and of prevFrontPartRef, the props it was given, the     *)
(* onBinCheck promises that are still outstanding, and the passive         *)
(* effects whose dependencies changed in the last commit and that React    *)
(* runs before it handles the next event.  State updates made by one       *)
(* callback are batched into one commit.  cursorPosition and isValid are   *)
(* write-only for the handlers modelled here and are left out.             *)
(*                                                                         *)
(* The functions of cardFormatter.ts are operators.  Each is also run on   *)
(* its own over bounded inputs: digits holds the argument and computed     *)
(* what the function returned for it.                                      *)
(***************************************************************************)
EXTENDS Naturals, Integers, Sequences, FiniteSets, TLC

\* ------------------------------------------------------------------------
\* Bounds of the model
\* ------------------------------------------------------------------------

\* digits the user types into the text field: "4" opens visa, "34" amex,
\* "3" and "33" stay unknown
FrontKeys == {"3", "4"}

\* digits of the on-screen keypad that are pressed
KeypadDigits == {"1"}

\* texts pasted over the whole field
PasteValues ==
  { <<"4","4","4","4","4","4","4","4">>,
    <<"4","4","4","4","4","4","4","4","4">>,
    <<"3","4","4","4">> }

\* a caret or a deleted character lies at most this far into the field
MaxCaret == 10

\* front edits made while an onBinCheck promise is outstanding
MaxEditsInFlight == 1

\* front edits that changed the front value under keypad digits they kept
MaxEditsOverBack == 1

\* onBinCheck calls with one unchanged front value are counted up to here
MaxCallsCounted == 2

\* card numbers handed to validateCardNumber: a start, digits added to it
LuhnSeeds ==
  { <<"4","2","4","2","4","2","4","2","4","2","4","2">>,
    <<"7","9","7","9"," ","7","9","7","9"," ","7","9","7","9">> }

LuhnKeys == {"1", "2", "4"}

\* longest card number handed to validateCardNumber
MaxLuhnLen == 20

\* longest digit string handed to detectCardBrand, over all ten digits
MaxBrandLen == 4

\* digit strings handed to formatCardNumber: built from these digits, up to
\* this length (34... is amex, 4... visa, 33... and 3 unknown)
FormatKeys == {"3", "4"}

MaxFormatLen == 16

\* ------------------------------------------------------------------------
\* Characters and strings
\* ------------------------------------------------------------------------

Bullet == "*"

DigitChars == {"0", "1", "2", "3", "4", "5", "6", "7", "8", "9"}

IsDigit(c) == c \in DigitChars

\* the characters \s of a regular expression matches, which are also the
\* ones trim() removes. Written as themselves: space, tab, line feed,
\* carriage return, form feed, vertical tab, U+00A0, U+1680 and U+FEFF
WrittenWhiteSpace ==
  { " ", "\t", "\n", "\r", "\f",
    "", " ", " ", "﻿" }

\* the white space characters a string of this module cannot hold, each
\* written as its code point (as Bullet is written for U+2022)
NamedWhiteSpace ==
  { "U+2000", "U+2001", "U+2002", "U+2003", "U+2004",
    "U+2005", "U+2006", "U+2007", "U+2008", "U+2009",
    "U+200A", "U+2028", "U+2029", "U+202F", "U+205F",
    "U+3000" }

WhiteSpace == WrittenWhiteSpace \cup NamedWhiteSpace

IsSpace(c) == c \in WhiteSpace

Min(a, b) == IF a < b THEN a ELSE b

\* String.prototype.slice(from, to) with 0 <= from, 0 <= to
Slice(s, from, to) == SubSeq(s, from + 1, Min(to, Len(s)))

\* String.prototype.slice(from)
SliceFrom(s, from) == SubSeq(s, from + 1, Len(s))

\* String.prototype.slice(0, -1)
DropLast(s) == SubSeq(s, 1, Len(s) - 1)

\* 'c'.repeat(n)
Repeat(c, n) == [i \in 1..n |-> c]

\* the character at 1-based position i, "" past the end
At(s, i) == IF i <= Len(s) THEN s[i] ELSE ""

\* String.prototype.trim() for the only whitespace the model has
RECURSIVE TrimLeft(_)
TrimLeft(s) == IF s # <<>> /\ IsSpace(Head(s)) THEN TrimLeft(Tail(s)) ELSE s

RECURSIVE TrimRight(_)
TrimRight(s) ==
  IF s # <<>> /\ IsSpace(s[Len(s)]) THEN TrimRight(DropLast(s)) ELSE s

Trim(s) == TrimLeft(TrimRight(s))

\* ------------------------------------------------------------------------
\* src/utils/cardFormatter.ts
\* ------------------------------------------------------------------------

PatternVisa(n) == At(n, 1) = "4"

PatternMastercard(n) ==
  \/ At(n, 1) = "5" /\ At(n, 2) \in {"1", "2", "3", "4", "5"}
  \/ /\ At(n, 1) = "2"
     /\ \/ /\ At(n, 2) = "2"
           /\ At(n, 3) \in {"2", "3", "4", "5", "6", "7", "8", "9"}
           /\ IsDigit(At(n, 4))
        \/ /\ At(n, 2) \in {"3", "4", "5", "6"}
           /\ IsDigit(At(n, 3))
           /\ IsDigit(At(n, 4))
        \/ /\ At(n, 2) = "7"
           /\ At(n, 3) \in {"0", "1"}
           /\ IsDigit(At(n, 4))
        \/ At(n, 2) = "7" /\ At(n, 3) = "2" /\ At(n, 4) = "0"

PatternAmex(n) == At(n, 1) = "3" /\ At(n, 2) \in {"4", "7"}

PatternDiscover(n) ==
  /\ At(n, 1) = "6"
  /\ \/ At(n, 2) = "0" /\ At(n, 3) = "1" /\ At(n, 4) = "1"
     \/ At(n, 2) = "5"

PatternDiners(n) ==
  /\ At(n, 1) = "3"
  /\ \/ At(n, 2) = "0" /\ At(n, 3) \in {"0", "1", "2", "3", "4", "5"}
     \/ At(n, 2) \in {"6", "8"}

PatternJcb(n) == At(n, 1) = "3" /\ At(n, 2) = "5"

PatternUnionpay(n) == At(n, 1) = "6" /\ At(n, 2) = "2"

detectCardBrand(n) ==
  IF PatternVisa(n) THEN "visa"
  ELSE IF PatternMastercard(n) THEN "mastercard"
  ELSE IF PatternAmex(n) THEN "amex"
  ELSE IF PatternDiscover(n) THEN "discover"
  ELSE IF PatternDiners(n) THEN "diners"
  ELSE IF PatternJcb(n) THEN "jcb"
  ELSE IF PatternUnionpay(n) THEN "unionpay"
  ELSE "unknown"

\* value.replace(/\s/g, "")
StripSpaces(s) == SelectSeq(s, LAMBDA c : ~IsSpace(c))

\* cleaned.replace(/(\d{4})/g, "$1 "): run is the number of digits of the
\* current match already copied
RECURSIVE GroupFours(_, _)
GroupFours(s, run) ==
  IF s = <<>> THEN <<>>
  ELSE IF ~IsDigit(Head(s)) THEN <<Head(s)>> \o GroupFours(Tail(s), 0)
  ELSE IF run = 3 THEN <<Head(s), " ">> \o GroupFours(Tail(s), 0)
  ELSE <<Head(s)>> \o GroupFours(Tail(s), run + 1)

formatCardNumber_NoTrim(value) ==
  LET cleaned == StripSpaces(value)
      cardBrand == detectCardBrand(cleaned)
  IN  IF cardBrand = "amex"
      THEN IF Len(cleaned) <= 4 THEN cleaned
           ELSE IF Len(cleaned) <= 10
                THEN Slice(cleaned, 0, 4) \o <<" ">> \o SliceFrom(cleaned, 4)
                ELSE Slice(cleaned, 0, 4) \o <<" ">> \o Slice(cleaned, 4, 10)
                     \o <<" ">> \o SliceFrom(cleaned, 10)
      ELSE GroupFours(cleaned, 0)

formatCardNumber(value) ==
  LET cleaned == StripSpaces(value)
      cardBrand == detectCardBrand(cleaned)
  IN  IF cardBrand = "amex"
      THEN IF Len(cleaned) <= 4 THEN cleaned
           ELSE IF Len(cleaned) <= 10
                THEN Slice(cleaned, 0, 4) \o <<" ">> \o SliceFrom(cleaned, 4)
                ELSE Slice(cleaned, 0, 4) \o <<" ">> \o Slice(cleaned, 4, 10)
                     \o <<" ">> \o SliceFrom(cleaned, 10)
      ELSE Trim(GroupFours(cleaned, 0))

\* value.replace(/\D/g, "")
cleanCardNumber(value) == SelectSeq(value, IsDigit)

\* parseInt of one digit character
DigitValue(c) ==
  CHOOSE n \in 0..9 : <<"0","1","2","3","4","5","6","7","8","9">>[n + 1] = c

\* the doubled digit is not brought back under 10
LuhnDigit_NoCarry(digit, isEven) == IF isEven THEN digit * 2 ELSE digit

\* body of the loop of validateCardNumber: what one digit adds to sum
LuhnDigit(digit, isEven) ==
  IF isEven
  THEN IF digit * 2 > 9 THEN digit * 2 - 9 ELSE digit * 2
  ELSE digit

\* the loop of validateCardNumber from index i (0-based) down to 0
RECURSIVE LuhnLoop(_, _, _, _)
LuhnLoop(cleaned, i, sum, isEven) ==
  IF i < 0 THEN sum
  ELSE LuhnLoop(cleaned, i - 1,
                sum + LuhnDigit(DigitValue(cleaned[i + 1]), isEven), ~isEven)

validateCardNumber(number) ==
  LET cleaned == cleanCardNumber(number)
  IN  IF Len(cleaned) < 13 \/ Len(cleaned) > 19 THEN FALSE
      ELSE LuhnLoop(cleaned, Len(cleaned) - 1, 0, FALSE) % 10 = 0

\* ------------------------------------------------------------------------
\* src/components/CardInput.tsx: state
\* ------------------------------------------------------------------------

VARIABLES
  frontPart,            \* useState(""): digits typed into the text field
  block3,               \* useState(""): first keypad segment
  block4,               \* useState(""): second keypad segment
  activeBlock,          \* useState('block3')
  brand,                \* useState("unknown")
  showKeypad,           \* useState(false)
  binCheckLoading,      \* useState(false)
  binCheckComplete,     \* useState(false)
  prevFrontPartRef,     \* useRef("")
  resetBackOnFrontEdit, \* prop, default true
  hasOnBinCheck,        \* whether the onBinCheck prop was given
  inflight,             \* arguments of the onBinCheck calls not yet settled
  editsInFlight,        \* front edits made while a call was outstanding
  editsOverBack,        \* front edits that kept the keypad digits they found
  callsForFront,        \* onBinCheck calls since frontPart last changed
  effectsDue,           \* passive effects whose dependencies changed
  digits,               \* argument of a cardFormatter function run on its own
  computed              \* what that function returned

vars ==
  << frontPart, block3, block4, activeBlock, brand, showKeypad,
     binCheckLoading, binCheckComplete, prevFrontPartRef,
     resetBackOnFrontEdit, hasOnBinCheck, inflight, editsInFlight,
     editsOverBack, callsForFront, effectsDue, digits, computed >>

Brands ==
  { "visa", "mastercard", "amex", "discover", "diners", "jcb", "unionpay",
    "unknown" }

\* the amex case of the front capacity is missing
getFrontMaxLength_NoAmex(b) == 8

getFrontMaxLength(b) == IF b = "amex" THEN 4 ELSE 8

getBlock3MaxLength(b) == IF b = "amex" THEN 6 ELSE 4

getBlock4MaxLength(b) == IF b = "amex" THEN 5 ELSE 4

\* the useState slots and the ref, as one record
Cur ==
  [ frontPart |-> frontPart, block3 |-> block3, block4 |-> block4,
    activeBlock |-> activeBlock, brand |-> brand, showKeypad |-> showKeypad,
    binCheckLoading |-> binCheckLoading,
    binCheckComplete |-> binCheckComplete,
    prevFrontPartRef |-> prevFrontPartRef ]

FrontCompleteOf(s) ==
  s.brand # "unknown" /\ Len(s.frontPart) = getFrontMaxLength(s.brand)

isFrontComplete == FrontCompleteOf(Cur)

\* segment A is enabled without a completed BIN check
isBlock3Enabled_Always == TRUE

isBlock3Enabled == binCheckComplete

isBlock4Enabled_Always == TRUE

isBlock4Enabled == Len(block3) = getBlock3MaxLength(brand)

\* ------------------------------------------------------------------------
\* Display helpers
\* ------------------------------------------------------------------------

getBlockTemplate(blockName) ==
  IF blockName = "block3"
  THEN IF brand = "amex" THEN <<"1","2","3","4","5","6">>
                         ELSE <<"1","2","3","4">>
  ELSE IF brand = "amex" THEN <<"1","2","3","4","5">>
                         ELSE <<"1","2","3","4">>

displayBlock(blockValue, blockName) ==
  Repeat(Bullet, Len(blockValue))
    \o SliceFrom(getBlockTemplate(blockName), Len(blockValue))

\* [..].filter(p => p).join(' ')
RECURSIVE JoinNonEmpty(_)
JoinNonEmpty(parts) ==
  IF parts = <<>> THEN <<>>
  ELSE LET rest == JoinNonEmpty(Tail(parts))
       IN  IF Head(parts) = <<>> THEN rest
           ELSE IF rest = <<>> THEN Head(parts)
           ELSE Head(parts) \o <<" ">> \o rest

getDisplayCardNumber ==
  LET front == formatCardNumber(frontPart)
  IN  IF block3 = <<>> /\ block4 = <<>> THEN front
      ELSE JoinNonEmpty(<< front, displayBlock(block3, "block3"),
                           displayBlock(block4, "block4") >>)

displayCardNumber == getDisplayCardNumber

\* ------------------------------------------------------------------------
\* Helper functions of the front handler
\* ------------------------------------------------------------------------

extractFrontPartFromInput(value, currentBrand) ==
  LET frontMaxLength == getFrontMaxLength(currentBrand)
      frontMaxFormatted == Len(formatCardNumber(Repeat("9", frontMaxLength)))
      frontPartValue == Slice(value, 0, frontMaxFormatted)
  IN  cleanCardNumber(
        SelectSeq(frontPartValue, LAMBDA c : c # Bullet /\ ~IsSpace(c)))

adjustFrontPartForBrandChange(fp, oldBrand, newBrand) ==
  LET oldMaxLength == getFrontMaxLength(oldBrand)
      newMaxLength == getFrontMaxLength(newBrand)
  IN  IF newMaxLength < oldMaxLength /\ Len(fp) > newMaxLength
      THEN Slice(fp, 0, newMaxLength)
      ELSE fp

\* only a change of brand resets the keypad segments
shouldResetBackBlocks_BrandOnly(newFront, prevFront, newBrand, oldBrand, hasBack) ==
  IF ~resetBackOnFrontEdit \/ ~hasBack THEN FALSE
  ELSE newBrand # oldBrand

shouldResetBackBlocks(newFront, prevFront, newBrand, oldBrand, hasBack) ==
  IF ~resetBackOnFrontEdit \/ ~hasBack THEN FALSE
  ELSE newFront # prevFront \/ newBrand # oldBrand

\* the reset forgets the second keypad segment
resetBackBlocks_KeepsBlock4(s) ==
  [ s EXCEPT !.block3 = <<>>, !.activeBlock = "block3",
             !.showKeypad = FALSE, !.binCheckComplete = FALSE ]

resetBackBlocks_KeepsActive(s) ==
  [ s EXCEPT !.block3 = <<>>, !.block4 = <<>>,
             !.showKeypad = FALSE, !.binCheckComplete = FALSE ]

resetBackBlocks(s) ==
  [ s EXCEPT !.block3 = <<>>, !.block4 = <<>>, !.activeBlock = "block3",
             !.showKeypad = FALSE, !.binCheckComplete = FALSE ]

\* ------------------------------------------------------------------------
\* Handlers: each gives the state slots after the callback has run
\* ------------------------------------------------------------------------

handleFrontChange_StaleBrand(value) ==
  LET currentBrand ==
        IF brand # "unknown" THEN brand ELSE detectCardBrand(frontPart)
      cleanedValue == extractFrontPartFromInput(value, currentBrand)
      detectedBrand == detectCardBrand(cleanedValue)
      detectedFrontMaxLength == getFrontMaxLength(detectedBrand)
      brandChanged == detectedBrand # currentBrand
      adjusted ==
        IF brandChanged
        THEN adjustFrontPartForBrandChange(cleanedValue, currentBrand,
                                           detectedBrand)
        ELSE cleanedValue
      newFrontPart == Slice(adjusted, 0, detectedFrontMaxLength)
      hasBackBlocks == block3 # <<>> \/ block4 # <<>>
      didReset ==
        shouldResetBackBlocks(newFrontPart, prevFrontPartRef, detectedBrand,
                              brand, hasBackBlocks)
      afterReset == IF didReset THEN resetBackBlocks(Cur) ELSE Cur
      isFrontCompleteNow ==
        Len(newFrontPart) = detectedFrontMaxLength
          /\ detectedBrand # "unknown"
  IN  IF ~brandChanged /\ Len(cleanedValue) > detectedFrontMaxLength
      THEN Cur
      ELSE [ afterReset EXCEPT
               !.frontPart = newFrontPart,
               !.brand = currentBrand,
               !.prevFrontPartRef = newFrontPart,
               !.showKeypad =
                 IF ~didReset /\ isFrontCompleteNow THEN TRUE ELSE @ ]

handleFrontChange(value) ==
  LET currentBrand ==
        IF brand # "unknown" THEN brand ELSE detectCardBrand(frontPart)
      cleanedValue == extractFrontPartFromInput(value, currentBrand)
      detectedBrand == detectCardBrand(cleanedValue)
      detectedFrontMaxLength == getFrontMaxLength(detectedBrand)
      brandChanged == detectedBrand # currentBrand
      adjusted ==
        IF brandChanged
        THEN adjustFrontPartForBrandChange(cleanedValue, currentBrand,
                                           detectedBrand)
        ELSE cleanedValue
      newFrontPart == Slice(adjusted, 0, detectedFrontMaxLength)
      hasBackBlocks == block3 # <<>> \/ block4 # <<>>
      didReset ==
        shouldResetBackBlocks(newFrontPart, prevFrontPartRef, detectedBrand,
                              brand, hasBackBlocks)
      afterReset == IF didReset THEN resetBackBlocks(Cur) ELSE Cur
      isFrontCompleteNow ==
        Len(newFrontPart) = detectedFrontMaxLength
          /\ detectedBrand # "unknown"
  IN  IF ~brandChanged /\ Len(cleanedValue) > detectedFrontMaxLength
      THEN Cur
      ELSE [ afterReset EXCEPT
               !.frontPart = newFrontPart,
               !.brand = detectedBrand,
               !.prevFrontPartRef = newFrontPart,
               !.showKeypad =
                 IF ~didReset /\ isFrontCompleteNow THEN TRUE ELSE @ ]

handleKeypadNumber_NoAdvance(num) ==
  IF activeBlock = "block3" /\ isBlock3Enabled
  THEN LET maxLength == getBlock3MaxLength(brand)
       IN  IF Len(block3) >= maxLength THEN Cur
           ELSE [ Cur EXCEPT !.block3 = block3 \o <<num>> ]
  ELSE IF activeBlock = "block4" /\ isBlock4Enabled
  THEN LET maxLength == getBlock4MaxLength(brand)
       IN  IF Len(block4) >= maxLength THEN Cur
           ELSE [ Cur EXCEPT !.block4 = block4 \o <<num>> ]
  ELSE Cur

handleKeypadNumber(num) ==
  IF activeBlock = "block3" /\ isBlock3Enabled
  THEN LET maxLength == getBlock3MaxLength(brand)
           newBlock3 == block3 \o <<num>>
       IN  IF Len(block3) >= maxLength THEN Cur
           ELSE [ Cur EXCEPT
                    !.block3 = newBlock3,
                    !.activeBlock =
                      IF Len(newBlock3) = maxLength THEN "block4" ELSE @ ]
  ELSE IF activeBlock = "block4" /\ isBlock4Enabled
  THEN LET maxLength == getBlock4MaxLength(brand)
       IN  IF Len(block4) >= maxLength THEN Cur
           ELSE [ Cur EXCEPT !.block4 = block4 \o <<num>> ]
  ELSE Cur

handleKeypadDelete_DeletesOnSwitch ==
  IF activeBlock = "block3"
  THEN [ Cur EXCEPT !.block3 = DropLast(block3) ]
  ELSE IF activeBlock = "block4"
  THEN IF Len(block4) > 0
       THEN [ Cur EXCEPT !.block4 = DropLast(block4) ]
       ELSE [ Cur EXCEPT !.activeBlock = "block3",
                         !.block3 = DropLast(block3) ]
  ELSE Cur

handleKeypadDelete ==
  IF activeBlock = "block3"
  THEN [ Cur EXCEPT !.block3 = DropLast(block3) ]
  ELSE IF activeBlock = "block4"
  THEN IF Len(block4) > 0
       THEN [ Cur EXCEPT !.block4 = DropLast(block4) ]
       ELSE [ Cur EXCEPT !.activeBlock = "block3" ]
  ELSE Cur

\* ------------------------------------------------------------------------
\* Commits and passive effects
\* ------------------------------------------------------------------------

\* dependency array of the effect that re-opens the keypad
KeypadEffectDeps(s) == << s.block3, s.block4, FrontCompleteOf(s) >>

\* dependency array of the BIN check effect (onBinCheck never changes)
BinEffectDeps(s) ==
  << FrontCompleteOf(s), s.frontPart, s.binCheckComplete, s.binCheckLoading >>

\* the effects React schedules when the commit replaces the slots by n
EffectsAfter(n) ==
  (IF KeypadEffectDeps(n) # KeypadEffectDeps(Cur) THEN {"keypad"} ELSE {})
    \cup (IF BinEffectDeps(n) # BinEffectDeps(Cur) THEN {"bin"} ELSE {})

\* the commit of n changes the front value and keeps keypad digits
KeepsBackOverEdit(n) ==
  /\ n.frontPart # frontPart \/ n.brand # brand
  /\ n.block3 # <<>> \/ n.block4 # <<>>

\* one batched commit of the slots n
Commit(n) ==
  /\ KeepsBackOverEdit(n) => editsOverBack < MaxEditsOverBack
  /\ editsOverBack' =
       IF n.block3 = <<>> /\ n.block4 = <<>> THEN 0
       ELSE IF KeepsBackOverEdit(n) THEN editsOverBack + 1
       ELSE editsOverBack
  /\ frontPart' = n.frontPart
  /\ block3' = n.block3
  /\ block4' = n.block4
  /\ activeBlock' = n.activeBlock
  /\ brand' = n.brand
  /\ showKeypad' = n.showKeypad
  /\ binCheckLoading' = n.binCheckLoading
  /\ binCheckComplete' = n.binCheckComplete
  /\ prevFrontPartRef' = n.prevFrontPartRef
  /\ effectsDue' = EffectsAfter(n)
  /\ UNCHANGED << resetBackOnFrontEdit, hasOnBinCheck, digits, computed >>

KeypadEffectFires ==
  "keypad" \in effectsDue /\ isFrontComplete
    /\ (block3 # <<>> \/ block4 # <<>>)

\* the effect does not look at binCheckLoading
BinCheckFires_NoLoadingGuard ==
  /\ "bin" \in effectsDue
  /\ isFrontComplete /\ hasOnBinCheck
  /\ ~binCheckComplete

BinCheckFires ==
  /\ "bin" \in effectsDue
  /\ isFrontComplete /\ hasOnBinCheck
  /\ ~binCheckComplete /\ ~binCheckLoading

\* React flushes the scheduled effects of the last commit
RunEffects ==
  /\ effectsDue # {}
  /\ Commit([ Cur EXCEPT
                !.showKeypad = IF KeypadEffectFires THEN TRUE ELSE @,
                !.binCheckLoading = IF BinCheckFires THEN TRUE ELSE @ ])
  /\ inflight' = IF BinCheckFires THEN Append(inflight, frontPart)
                 ELSE inflight
  /\ callsForFront' =
       IF BinCheckFires THEN Min(callsForFront + 1, MaxCallsCounted)
       ELSE callsForFront
  /\ UNCHANGED editsInFlight

\* ------------------------------------------------------------------------
\* Events
\* ------------------------------------------------------------------------

RemoveAt(s, i) == SubSeq(s, 1, i - 1) \o SubSeq(s, i + 1, Len(s))

InsertAt(s, p, c) == SubSeq(s, 1, p) \o <<c>> \o SubSeq(s, p + 1, Len(s))

\* onKeyDown lets a Backspace through unless the caret is behind the front
BackspaceAllowed(caret) ==
  ~( (block3 # <<>> \/ block4 # <<>>)
     /\ caret > Len(formatCardNumber(frontPart)) )

\* the values the text field can report after one edit of what it shows
FrontInputs ==
  LET shown == displayCardNumber
      last == Min(Len(shown), MaxCaret)
  IN  { InsertAt(shown, p, k) : p \in 0..last, k \in FrontKeys }
        \cup { RemoveAt(shown, p) : p \in { q \in 1..last : BackspaceAllowed(q) } }
        \cup { RemoveAt(shown, p + 1) : p \in 0..(last - 1) }
        \cup PasteValues

FrontChange(value) ==
  /\ effectsDue = {}
  /\ inflight # <<>> => editsInFlight < MaxEditsInFlight
  /\ Commit(handleFrontChange(value))
  /\ editsInFlight' = IF inflight # <<>> THEN editsInFlight + 1 ELSE 0
  /\ callsForFront' = IF frontPart' # frontPart THEN 0 ELSE callsForFront
  /\ UNCHANGED inflight

\* the keypad is in the rendered tree
KeypadRendered == showKeypad /\ isFrontComplete /\ binCheckComplete

\* disabled attribute of the digit buttons
isDisabled ==
  \/ activeBlock = "block3" /\ ~isBlock3Enabled
  \/ activeBlock = "block4" /\ ~isBlock4Enabled

KeypadNumber(num) ==
  /\ effectsDue = {}
  /\ KeypadRendered /\ ~isDisabled
  /\ Commit(handleKeypadNumber(num))
  /\ UNCHANGED << inflight, editsInFlight, callsForFront >>

KeypadDelete ==
  /\ effectsDue = {}
  /\ KeypadRendered
  /\ Commit(handleKeypadDelete)
  /\ UNCHANGED << inflight, editsInFlight, callsForFront >>

SelectBlock3 ==
  /\ effectsDue = {}
  /\ KeypadRendered /\ isBlock3Enabled
  /\ Commit([ Cur EXCEPT !.activeBlock = "block3" ])
  /\ UNCHANGED << inflight, editsInFlight, callsForFront >>

SelectBlock4 ==
  /\ effectsDue = {}
  /\ KeypadRendered /\ isBlock4Enabled
  /\ Commit([ Cur EXCEPT !.activeBlock = "block4" ])
  /\ UNCHANGED << inflight, editsInFlight, callsForFront >>

CloseKeypad ==
  /\ effectsDue = {}
  /\ KeypadRendered
  /\ Commit([ Cur EXCEPT !.showKeypad = FALSE ])
  /\ UNCHANGED << inflight, editsInFlight, callsForFront >>

OpenKeypad ==
  /\ effectsDue = {}
  /\ isFrontComplete /\ binCheckComplete /\ ~showKeypad
  /\ Commit([ Cur EXCEPT !.showKeypad = TRUE ])
  /\ UNCHANGED << inflight, editsInFlight, callsForFront >>

\* the then callback only clears binCheckLoading
BinCheckResolved_NotComplete(i) ==
  /\ effectsDue = {}
  /\ i \in DOMAIN inflight
  /\ Commit([ Cur EXCEPT !.binCheckLoading = FALSE ])
  /\ inflight' = RemoveAt(inflight, i)
  /\ editsInFlight' = IF inflight' = <<>> THEN 0 ELSE editsInFlight
  /\ UNCHANGED callsForFront

\* the then callback sets binCheckComplete and leaves binCheckLoading
BinCheckResolved_KeepsLoading(i) ==
  /\ effectsDue = {}
  /\ i \in DOMAIN inflight
  /\ Commit([ Cur EXCEPT !.binCheckComplete = TRUE ])
  /\ inflight' = RemoveAt(inflight, i)
  /\ editsInFlight' = IF inflight' = <<>> THEN 0 ELSE editsInFlight
  /\ UNCHANGED callsForFront

\* the promise of the i-th outstanding onBinCheck call is fulfilled
BinCheckResolved(i) ==
  /\ effectsDue = {}
  /\ i \in DOMAIN inflight
  /\ Commit([ Cur EXCEPT !.binCheckComplete = TRUE,
                         !.binCheckLoading = FALSE ])
  /\ inflight' = RemoveAt(inflight, i)
  /\ editsInFlight' = IF inflight' = <<>> THEN 0 ELSE editsInFlight
  /\ UNCHANGED callsForFront

\* the catch callback leaves binCheckLoading set
BinCheckRejected_KeepsLoading(i) ==
  /\ effectsDue = {}
  /\ i \in DOMAIN inflight
  /\ Commit(Cur)
  /\ inflight' = RemoveAt(inflight, i)
  /\ editsInFlight' = IF inflight' = <<>> THEN 0 ELSE editsInFlight
  /\ UNCHANGED callsForFront

\* the promise of the i-th outstanding onBinCheck call is rejected
BinCheckRejected(i) ==
  /\ effectsDue = {}
  /\ i \in DOMAIN inflight
  /\ Commit([ Cur EXCEPT !.binCheckLoading = FALSE ])
  /\ inflight' = RemoveAt(inflight, i)
  /\ editsInFlight' = IF inflight' = <<>> THEN 0 ELSE editsInFlight
  /\ UNCHANGED callsForFront

\* ------------------------------------------------------------------------
\* Specifications
\* ------------------------------------------------------------------------

InitSlots ==
  /\ frontPart = <<>>
  /\ block3 = <<>>
  /\ block4 = <<>>
  /\ activeBlock = "block3"
  /\ brand = "unknown"
  /\ showKeypad = FALSE
  /\ binCheckLoading = FALSE
  /\ binCheckComplete = FALSE
  /\ prevFrontPartRef = <<>>
  /\ inflight = <<>>
  /\ editsInFlight = 0
  /\ editsOverBack = 0
  /\ callsForFront = 0
  /\ effectsDue = {}

\* no cardFormatter function is run on its own
NoArgument ==
  /\ digits = <<>>
  /\ computed = <<>>

\* the component as App.tsx mounts it
Init ==
  /\ InitSlots
  /\ resetBackOnFrontEdit = TRUE
  /\ hasOnBinCheck = TRUE
  /\ NoArgument

\* the component under every setting of its props
InitAnyProps ==
  /\ InitSlots
  /\ resetBackOnFrontEdit \in BOOLEAN
  /\ hasOnBinCheck \in BOOLEAN
  /\ NoArgument

Next ==
  \/ \E value \in FrontInputs : FrontChange(value)
  \/ \E num \in KeypadDigits : KeypadNumber(num)
  \/ KeypadDelete
  \/ SelectBlock3
  \/ SelectBlock4
  \/ CloseKeypad
  \/ OpenKeypad
  \/ RunEffects
  \/ \E i \in DOMAIN inflight : BinCheckResolved(i)
  \/ \E i \in DOMAIN inflight : BinCheckRejected(i)

Spec == Init /\ [][Next]_vars

SpecAnyProps == InitAnyProps /\ [][Next]_vars

\* a collaborator whose promises are never rejected
NextResolving ==
  \/ \E value \in FrontInputs : FrontChange(value)
  \/ \E num \in KeypadDigits : KeypadNumber(num)
  \/ KeypadDelete
  \/ SelectBlock3
  \/ SelectBlock4
  \/ CloseKeypad
  \/ OpenKeypad
  \/ RunEffects
  \/ \E i \in DOMAIN inflight : BinCheckResolved(i)

\* React flushes the passive effects of every commit, and every promise of
\* the collaborator is settled
SpecResolving ==
  /\ Init
  /\ [][NextResolving]_vars
  /\ WF_vars(RunEffects)
  /\ WF_vars(\E i \in DOMAIN inflight : BinCheckResolved(i))

\* the component stays as mounted while a function is run on its own
ComponentIdle ==
  UNCHANGED << frontPart, block3, block4, activeBlock, brand, showKeypad,
               binCheckLoading, binCheckComplete, prevFrontPartRef,
               resetBackOnFrontEdit, hasOnBinCheck, inflight, editsInFlight,
               editsOverBack, callsForFront, effectsDue >>

\* validateCardNumber on its own
InitLuhn ==
  /\ InitSlots
  /\ resetBackOnFrontEdit = TRUE
  /\ hasOnBinCheck = TRUE
  /\ digits \in LuhnSeeds
  /\ computed = validateCardNumber(digits)

\* one more digit, and validateCardNumber of the longer number
LuhnAppend(key) ==
  /\ Len(digits) < MaxLuhnLen
  /\ digits' = digits \o <<key>>
  /\ computed' = validateCardNumber(digits')
  /\ ComponentIdle

NextLuhn == \E key \in LuhnKeys : LuhnAppend(key)

SpecLuhn == InitLuhn /\ [][NextLuhn]_vars

\* detectCardBrand on its own
InitBrand ==
  /\ InitSlots
  /\ resetBackOnFrontEdit = TRUE
  /\ hasOnBinCheck = TRUE
  /\ digits = <<>>
  /\ computed = detectCardBrand(digits)

\* one more digit, and detectCardBrand of the longer string
BrandAppend(key) ==
  /\ Len(digits) < MaxBrandLen
  /\ digits' = digits \o <<key>>
  /\ computed' = detectCardBrand(digits')
  /\ ComponentIdle

NextBrand == \E key \in DigitChars : BrandAppend(key)

SpecBrand == InitBrand /\ [][NextBrand]_vars

\* formatCardNumber on its own
InitFormat ==
  /\ InitSlots
  /\ resetBackOnFrontEdit = TRUE
  /\ hasOnBinCheck = TRUE
  /\ digits = <<>>
  /\ computed = formatCardNumber(digits)

\* one more digit, and formatCardNumber of the longer string
FormatAppend(key) ==
  /\ Len(digits) < MaxFormatLen
  /\ digits' = digits \o <<key>>
  /\ computed' = formatCardNumber(digits')
  /\ ComponentIdle

NextFormat == \E key \in FormatKeys : FormatAppend(key)

SpecFormat == InitFormat /\ [][NextFormat]_vars

\* ------------------------------------------------------------------------
\* Properties
\* ------------------------------------------------------------------------

HasBackBlocks == block3 # <<>> \/ block4 # <<>>

\* C1: with segment A active, a keypad digit changes no state while the
\* BIN check is not complete; once it is complete and segment A is below
\* its capacity, a keypad digit is appended to segment A.
KeypadGating ==
  \A num \in KeypadDigits :
    /\ (activeBlock = "block3" /\ ~binCheckComplete)
         => handleKeypadNumber(num) = Cur
    /\ ( activeBlock = "block3" /\ binCheckComplete
         /\ Len(block3) < getBlock3MaxLength(brand) )
         => /\ handleKeypadNumber(num).block3 = block3 \o <<num>>
            /\ ~isDisabled

KeypadGatingWitness ==
  /\ binCheckComplete /\ activeBlock = "block3"
  /\ block3 # <<>> /\ Len(block3) < getBlock3MaxLength(brand)

\* C2: the fulfilment of an onBinCheck call sets binCheckComplete only
\* when the front value the call was made for is the current front value.
StaleResponseIgnored ==
  [][ \A i \in DOMAIN inflight :
        BinCheckResolved(i)
          => (binCheckComplete' => inflight[i] = frontPart') ]_vars

\* C3: after every step that changes the front value the BIN check is not
\* complete, whatever the keypad segments hold.
FrontChangeResetsVerification ==
  [][ frontPart' # frontPart => ~binCheckComplete' ]_vars

\* C4: with reset-on-edit and a digit in a keypad segment, a front edit
\* that changes the front value or the brand empties both keypad segments,
\* makes block3 active, hides the keypad, clears binCheckComplete and does
\* not show the keypad again.
ResetOnFrontEdit ==
  [][ ( resetBackOnFrontEdit /\ HasBackBlocks
        /\ (frontPart' # frontPart \/ brand' # brand) )
        => /\ block3' = <<>>
           /\ block4' = <<>>
           /\ activeBlock' = "block3"
           /\ ~showKeypad'
           /\ ~binCheckComplete' ]_vars

\* a complete front with the keypad hidden and the BIN check not complete
\* is only left behind by a resetting edit
ResetOnFrontEditWitness ==
  /\ isFrontComplete /\ ~showKeypad /\ ~binCheckComplete
  /\ block3 = <<>> /\ block4 = <<>> /\ activeBlock = "block3"

\* C5: onBinCheck is called exactly once for every completed front value:
\* never twice while the front value stays the same, and once the effects
\* of a commit with a complete front have run it has been called for it.
ExactlyOnceForCompletedFront ==
  /\ callsForFront <= 1
  /\ (isFrontComplete /\ hasOnBinCheck /\ effectsDue = {})
       => callsForFront = 1

\* C6: at most one onBinCheck call is outstanding.
AtMostOneOutstanding == Len(inflight) <= 1

AtMostOneOutstandingWitness == Len(inflight) = 1 /\ binCheckLoading

\* C7: a rejected onBinCheck call clears binCheckLoading, leaves
\* binCheckComplete false and every other slot as it was, and the BIN check
\* effect is run again, starting a new call when the front is complete.
FailureIsRetryEligible ==
  [][ \A i \in DOMAIN inflight :
        BinCheckRejected(i)
          => /\ ~binCheckLoading'
             /\ ~binCheckComplete'
             /\ UNCHANGED << frontPart, brand, block3, block4, activeBlock,
                             showKeypad >>
             /\ "bin" \in effectsDue'
             /\ isFrontComplete => BinCheckFires' ]_vars

\* a second call for an unchanged front value follows a rejected one
FailureIsRetryEligibleWitness ==
  /\ callsForFront >= 2 /\ binCheckLoading
  /\ inflight = << frontPart >>

\* C8: the front segment never holds more than 4 digits under amex and 8
\* otherwise, and a front edit leaves both keypad segments as they were
\* or empties both.
FrontWithinCapacity ==
  [][ /\ Len(frontPart) <= (IF brand = "amex" THEN 4 ELSE 8)
      /\ Len(frontPart') <= (IF brand' = "amex" THEN 4 ELSE 8)
      /\ \/ block3' = block3 /\ block4' = block4
         \/ block3' = <<>> /\ block4' = <<>>
         \/ ~(\E value \in FrontInputs : FrontChange(value)) ]_vars

\* an amex front at its capacity of 4, just committed by a front edit
FrontWithinCapacityWitness ==
  /\ brand = "amex" /\ Len(frontPart) = 4
  /\ "bin" \in effectsDue /\ callsForFront = 0

\* C9: under both settings of resetBackOnFrontEdit, segment A holds at
\* most 6 and segment B at most 5 digits under amex, and each at most 4
\* under every other brand.
KeypadSegmentsBounded ==
  /\ Len(block3) <= (IF brand = "amex" THEN 6 ELSE 4)
  /\ Len(block4) <= (IF brand = "amex" THEN 5 ELSE 4)

\* C10: with reset-on-edit, while a keypad segment holds a digit the front
\* is complete, the BIN check is complete, and the front value is the one
\* that was there when the first of those digits was entered.
BackEntryAttachedToFront ==
  [][ /\ (block3' # <<>> \/ block4' # <<>>)
        => /\ brand' # "unknown"
           /\ Len(frontPart') = (IF brand' = "amex" THEN 4 ELSE 8)
           /\ binCheckComplete'
      /\ (HasBackBlocks /\ (block3' # <<>> \/ block4' # <<>>))
        => frontPart' = frontPart ]_vars

BackEntryAttachedToFrontWitness ==
  /\ block3 # <<>> /\ block4 # <<>>
  /\ isFrontComplete /\ binCheckComplete

\* C11: validateCardNumber returns a boolean for every input; it is false
\* below 13 and above 19 digits, and otherwise true exactly when the sum
\* of the digits, every second one from the right doubled and reduced by 9
\* when above 9, is divisible by 10.
LuhnWeight(cleaned, k) ==
  LET d == DigitValue(cleaned[Len(cleaned) + 1 - k])
  IN  IF k % 2 = 1 THEN d
      ELSE IF 2 * d > 9 THEN 2 * d - 9 ELSE 2 * d

RECURSIVE LuhnSum(_, _)
LuhnSum(cleaned, k) ==
  IF k = 0 THEN 0 ELSE LuhnWeight(cleaned, k) + LuhnSum(cleaned, k - 1)

LuhnReference(number) ==
  LET cleaned == SelectSeq(number, LAMBDA c : c \in DigitChars)
  IN  /\ Len(cleaned) >= 13
      /\ Len(cleaned) <= 19
      /\ LuhnSum(cleaned, Len(cleaned)) % 10 = 0

LuhnValidVector ==
  <<"4","2","4","2","4","2","4","2","4","2","4","2","4","2","4","2">>

LuhnInvalidVector ==
  <<"4","2","4","2","4","2","4","2","4","2","4","2","4","2","4","1">>

ValidateMatchesLuhn ==
  /\ computed \in BOOLEAN
  /\ computed = LuhnReference(digits)
  /\ digits = LuhnValidVector => computed
  /\ digits = LuhnInvalidVector => ~computed

ValidateMatchesLuhnWitness ==
  /\ computed = TRUE
  /\ Len(cleanCardNumber(digits)) = 16
  /\ \E i \in DOMAIN digits : digits[i] = "7"

\* C12: detectCardBrand gives visa exactly for strings that start with 4,
\* amex exactly for those that start with 34 or 37, mastercard exactly for
\* those that start with 51 to 55 or whose first four digits lie in 2221
\* to 2720; the first brand that matches in the order visa, mastercard,
\* amex, discover, diners, jcb, unionpay is returned, unknown when none
\* matches.
FirstFour(n) ==
  1000 * DigitValue(n[1]) + 100 * DigitValue(n[2]) + 10 * DigitValue(n[3])
    + DigitValue(n[4])

RuleVisa(n) == Len(n) >= 1 /\ n[1] = "4"

RuleAmex(n) == Len(n) >= 2 /\ n[1] = "3" /\ n[2] \in {"4", "7"}

RuleMastercard(n) ==
  \/ Len(n) >= 2 /\ n[1] = "5" /\ DigitValue(n[2]) \in 1..5
  \/ Len(n) >= 4 /\ FirstFour(n) >= 2221 /\ FirstFour(n) <= 2720

RuleMatches(b, n) ==
  CASE b = "visa" -> RuleVisa(n)
    [] b = "mastercard" -> RuleMastercard(n)
    [] b = "amex" -> RuleAmex(n)
    [] b = "discover" -> PatternDiscover(n)
    [] b = "diners" -> PatternDiners(n)
    [] b = "jcb" -> PatternJcb(n)
    [] b = "unionpay" -> PatternUnionpay(n)

BrandOrder ==
  << "visa", "mastercard", "amex", "discover", "diners", "jcb", "unionpay" >>

FirstRuleMatch(n) ==
  IF \E i \in DOMAIN BrandOrder : RuleMatches(BrandOrder[i], n)
  THEN BrandOrder[CHOOSE i \in DOMAIN BrandOrder :
                    /\ RuleMatches(BrandOrder[i], n)
                    /\ \A j \in 1..(i - 1) : ~RuleMatches(BrandOrder[j], n)]
  ELSE "unknown"

BrandMatchesPrefixRules ==
  /\ computed = "visa" <=> RuleVisa(digits)
  /\ computed = "amex" <=> RuleAmex(digits)
  /\ computed = "mastercard" <=> RuleMastercard(digits)
  /\ computed = FirstRuleMatch(digits)

\* C13: for every digit string d, the empty one and amex strings of more
\* than 15 digits included, the digits of formatCardNumber(d) are d again,
\* and the formatted string neither starts nor ends with a separator.
FormatRoundTrip ==
  /\ cleanCardNumber(computed) = digits
  /\ computed # <<>> => ~IsSpace(computed[1]) /\ ~IsSpace(computed[Len(computed)])

FormatRoundTripWitness ==
  /\ Len(digits) = 16
  /\ detectCardBrand(digits) = "amex"
  /\ Len(computed) = 18
  /\ IsSpace(computed[5])
  /\ IsSpace(computed[12])

\* C14: when the front segment is at the capacity of the current brand, a
\* front edit that inserts one more digit, at any caret position of the
\* front text and without changing the detected brand, is ignored: front
\* value, brand, both keypad segments, active segment, keypad visibility and
\* the verification flags keep their values.
OverflowingInserts ==
  LET shown == displayCardNumber
      last == Min(Len(formatCardNumber(frontPart)), MaxCaret)
  IN  { v \in { InsertAt(shown, p, k) : p \in 0..last, k \in FrontKeys } :
          detectCardBrand(extractFrontPartFromInput(v, brand)) = brand }

OverflowRejected ==
  [][ \A value \in OverflowingInserts :
        Len(frontPart) = getFrontMaxLength(brand) /\ FrontChange(value)
          => UNCHANGED << frontPart, brand, block3, block4, activeBlock,
                          showKeypad, binCheckLoading, binCheckComplete >> ]_vars

\* C15: a keypad digit that brings segment A (block3) exactly to its
\* capacity for the brand (4, or 6 for amex) makes B (block4) the active
\* segment in the same step; a digit that leaves A below capacity keeps A
\* active; a digit pressed while the active segment is at capacity changes
\* nothing.
ActiveBlockFull ==
  \/ activeBlock = "block3" /\ Len(block3) >= getBlock3MaxLength(brand)
  \/ activeBlock = "block4" /\ Len(block4) >= getBlock4MaxLength(brand)

AdvanceStep(num) ==
  activeBlock = "block3" /\ ~ActiveBlockFull /\ KeypadNumber(num)
    => /\ block3' = block3 \o <<num>>
       /\ brand' = brand
       /\ getBlock3MaxLength(brand) = IF brand = "amex" THEN 6 ELSE 4
       /\ Len(block3') = getBlock3MaxLength(brand) => activeBlock' = "block4"
       /\ Len(block3') < getBlock3MaxLength(brand) => activeBlock' = "block3"

SegmentAutoAdvance ==
  /\ [][ \A num \in KeypadDigits : AdvanceStep(num) ]_vars
  /\ [](ActiveBlockFull => \A num \in KeypadDigits : handleKeypadNumber(num) = Cur)

SegmentAutoAdvanceWitness ==
  /\ brand = "amex"
  /\ Len(block3) = 6
  /\ block4 = <<>>
  /\ activeBlock = "block4"
  /\ KeypadRendered

\* C16: in every reachable state a keypad digit pressed with segment B
\* (block4) active is appended to B only when the length of segment A
\* (block3) equals the brand's capacity for A, and changes nothing otherwise;
\* the selector cannot make B active while A is below capacity.
BlockAFull == Len(block3) = getBlock3MaxLength(brand)

PressOnB(num) ==
  LET pressed == handleKeypadNumber(num)
  IN  /\ pressed.block4 # block4
        => BlockAFull /\ pressed = [ Cur EXCEPT !.block4 = block4 \o <<num>> ]
      /\ ~BlockAFull => pressed = Cur

SegmentBGating ==
  /\ [](activeBlock = "block4" => \A num \in KeypadDigits : PressOnB(num))
  /\ [][ SelectBlock4 => BlockAFull /\ activeBlock' = "block4" ]_vars
  /\ [][ activeBlock # "block4" /\ activeBlock' = "block4" => BlockAFull' ]_vars

SegmentBGatingWitness ==
  /\ KeypadRendered
  /\ activeBlock = "block4"
  /\ ~BlockAFull
  /\ block4 # <<>>

\* C17: a delete press removes exactly the last digit of the active
\* segment when that segment is not empty, and leaves the other segment and
\* the active segment as they are; with B (block4) active and empty it only
\* makes A (block3) active and removes no digit; with A active and empty it
\* changes nothing.
DeleteFrame ==
  LET deleted == handleKeypadDelete
  IN  /\ activeBlock = "block3" /\ block3 # <<>>
        => deleted = [ Cur EXCEPT !.block3 = SubSeq(block3, 1, Len(block3) - 1) ]
      /\ activeBlock = "block4" /\ block4 # <<>>
        => deleted = [ Cur EXCEPT !.block4 = SubSeq(block4, 1, Len(block4) - 1) ]
      /\ activeBlock = "block4" /\ block4 = <<>>
        => deleted = [ Cur EXCEPT !.activeBlock = "block3" ]
      /\ activeBlock = "block3" /\ block3 = <<>> => deleted = Cur

KeypadDeleteFrame ==
  /\ []DeleteFrame
  /\ [][ KeypadDelete
           => /\ block3' = handleKeypadDelete.block3
              /\ block4' = handleKeypadDelete.block4
              /\ activeBlock' = handleKeypadDelete.activeBlock
              /\ UNCHANGED << frontPart, brand, showKeypad, binCheckLoading,
                              binCheckComplete >> ]_vars

KeypadDeleteFrameWitness ==
  /\ KeypadRendered
  /\ activeBlock = "block3"
  /\ Len(block3) = getBlock3MaxLength(brand) - 1
  /\ block4 # <<>>

\* C18: in every reachable state the stored brand is the brand of the stored
\* front segment, brand = detectCardBrand(frontPart), also after an edit in
\* which a brand change cut the front digits to the new brand's capacity and
\* after an edit that was rejected.
BrandOfFront ==
  /\ [](brand = detectCardBrand(frontPart))
  /\ [][ brand' # brand
           => /\ brand' = detectCardBrand(frontPart')
              /\ Len(frontPart') <= getFrontMaxLength(brand') ]_vars

BrandOfFrontWitness ==
  /\ inflight = << <<"4", "4", "4", "4", "4", "4", "4", "4">> >>
  /\ editsInFlight = 1
  /\ brand = "amex"
  /\ frontPart = <<"3", "4", "4", "4">>

\* C19: with a collaborator configured, once the front segment is complete
\* (at capacity, brand known) and is edited no more, and every call is
\* fulfilled, the verification eventually is and stays complete and segment
\* A (block3) accepts keypad digits.
FrontSettled ==
  /\ <>[](hasOnBinCheck /\ isFrontComplete)
  /\ <>[][frontPart' = frontPart]_vars

VerificationCompletes ==
  FrontSettled => <>[](binCheckComplete /\ ~binCheckLoading /\ isBlock3Enabled)

VerificationCompletesWitness ==
  /\ hasOnBinCheck
  /\ isFrontComplete
  /\ binCheckComplete
  /\ ~binCheckLoading
  /\ inflight = <<>>
  /\ callsForFront = 1
  /\ frontPart = <<"3", "4", "4", "3">>

\* C20: binCheckLoading and binCheckComplete are never both true, and
\* binCheckComplete turns from false to true only in a step that settles an
\* outstanding call, a step in which binCheckLoading turns from true to
\* false.
FlagsEncodeLifecycle ==
  /\ [](~(binCheckLoading /\ binCheckComplete))
  /\ [][ ~binCheckComplete /\ binCheckComplete'
           => /\ binCheckLoading /\ ~binCheckLoading'
              /\ \E i \in DOMAIN inflight : inflight' = RemoveAt(inflight, i) ]_vars

FlagsEncodeLifecycleWitness ==
  /\ binCheckComplete
  /\ ~binCheckLoading
  /\ inflight = <<>>
  /\ callsForFront = 2
  /\ block3 = <<>>
  /\ effectsDue = {"bin"}

\* C21: with resetBackOnFrontEdit set, in every reachable state whose active
\* segment is B (block4), segment A (block3) is exactly at the brand's
\* capacity for A: no sequence of keypad digits, deletes, selections, front
\* edits and responses leaves B active over an incomplete A.
ActiveBOverFullA ==
  resetBackOnFrontEdit /\ activeBlock = "block4"
    => Len(block3) = getBlock3MaxLength(brand)

ActiveBOverFullAWitness ==
  /\ resetBackOnFrontEdit
  /\ activeBlock = "block4"
  /\ brand = "visa"
  /\ Len(block3) = 4
  /\ Len(block4) = 4
  /\ effectsDue = {}

====
